---- MODULE Spec2Model ----
(***************************************************************************)
(* Model of the function-definition pipeline of CZApp:                     *)
(*   - CZParser.Parser: readFunctions and its three check methods,         *)
(*     returnFunction and the Function class it builds;                    *)
(*   - CZMathematics.TwoParameterFunction: the strict setters, as          *)
(*     inherited by the hardcoded oscillators.                             *)
(*                                                                         *)
(* JSON values are records [k, s, n]: k is the kind ("text", "num",        *)
(* "null"), s the characters of a text, n a number in tenths (15 is 1.5).  *)
(* A JSON object (a Python dict) is a function whose DOMAIN is its key     *)
(* set.  Python references to dicts are indices into function_data.        *)
(***************************************************************************)
EXTENDS Integers, Sequences, FiniteSets, TLC

VARIABLES
    phase,          \* "file": nothing read yet; "loaded": Parser built; "raised": readFunctions raised;
                    \* "opened", "read", "parsed", "validating": positions inside readFunctions
    input,          \* the record collection as json.loads returns it (kept for reference)
    function_data,  \* the same dicts, as mutated in place by readFunctions and the setters
    functions,      \* Parser.functions: references (indices into function_data)
    mathCall,       \* the latest direct call of checkFunction_math: its argument and outcome
    objs,           \* the Function objects returned by returnFunction so far
    hard,           \* the hardcoded TwoParameterFunction objects of the application
    last,           \* the latest call on a function object or of returnFunction, and its outcome
    data_file       \* the file readFunctions reads: what it holds and the state of the handle

vars == <<phase, input, function_data, functions, mathCall, objs, hard, last, data_file>>

----------------------------------------------------------------------------
(* Bounds *)

MaxRecords == 3     \* longest record collection whose order is explored
MaxIndex == 2       \* largest index passed to returnFunction (and -MaxIndex-1 the smallest)
MaxFunctions == 2   \* most Function objects materialized from one Parser

----------------------------------------------------------------------------
(* Values *)

Text(s) == [k |-> "text", s |-> s, n |-> 0]
Num(n) == [k |-> "num", s |-> "", n |-> n]
Null == [k |-> "null", s |-> "", n |-> 0]

NoExc == "none"

\* Python's float(v): a number stays, a text is parsed, None is a TypeError.
\* Texts outside the table are not numerals: ValueError.
float(v) ==
    IF v.k = "num" THEN [exc |-> NoExc, val |-> v]
    ELSE IF v.k = "null" THEN [exc |-> "TypeError", val |-> Null]
    ELSE CASE v.s = "0.0" -> [exc |-> NoExc, val |-> Num(0)]
           [] v.s = "1.5" -> [exc |-> NoExc, val |-> Num(15)]
           [] v.s = "2.0" -> [exc |-> NoExc, val |-> Num(20)]
           [] v.s = "3.0" -> [exc |-> NoExc, val |-> Num(30)]
           [] OTHER -> [exc |-> "ValueError", val |-> Null]

\* dict.update
update(d, u) ==
    [key \in (DOMAIN d) \cup (DOMAIN u) |-> IF key \in DOMAIN u THEN u[key] ELSE d[key]]

----------------------------------------------------------------------------
(* The expression evaluator (the Equation library) as the Parser uses it *)

\* The raw texts explored.  The first four are those of ParserTest; the
\* last is malformed text, which the library reports with an error that is
\* neither a TypeError nor a ZeroDivisionError.
RawTexts == {"A*x+B", "1/x", "bananas", "C*x + D*x^2", "A*(x"}

\* eq.Expression(raw, ['x','A','B']) followed by f(x=0, A=0, B=0): the
\* exception it ends with, NoExc when the probe evaluation completes.
\* An undeclared name becomes an argument the call does not supply: TypeError.
probe(raw) ==
    CASE raw = "A*x+B" -> NoExc
      [] raw = "1/x" -> "ZeroDivisionError"
      [] raw = "bananas" -> "TypeError"
      [] raw = "C*x + D*x^2" -> "TypeError"
      [] raw = "A*(x" -> "SyntaxError"

----------------------------------------------------------------------------
(* Parser *)

_parameter_keys == <<"A", "B">>
_desc_keys == <<"name", "desc", "A_desc", "B_desc">>

\* checkFunction_math with the division by zero treated like a type error
checkFunction_math_zeroDivRejected(raw) ==
    LET e == probe(raw.s) IN
    CASE e = "TypeError" -> [exc |-> NoExc, ret |-> FALSE]
      [] e = "ZeroDivisionError" -> [exc |-> NoExc, ret |-> FALSE]
      [] e = NoExc -> [exc |-> NoExc, ret |-> TRUE]
      [] OTHER -> [exc |-> e, ret |-> FALSE]

\* Parser.checkFunction_math: [exc, ret]; ret is meaningful when exc = NoExc.
checkFunction_math(raw) ==
    LET e == probe(raw.s) IN
    CASE e = "TypeError" -> [exc |-> NoExc, ret |-> FALSE]
      [] e = "ZeroDivisionError" -> [exc |-> NoExc, ret |-> TRUE]
      [] e = NoExc -> [exc |-> NoExc, ret |-> TRUE]
      [] OTHER -> [exc |-> e, ret |-> FALSE]

\* Parser.checkFunction_desc
checkFunction_desc(element) ==
    \A i \in 1..Len(_desc_keys) : _desc_keys[i] \in DOMAIN element

\* Parser.checkFunction_params
checkFunction_params(element) ==
    \A i \in 1..Len(_parameter_keys) : _parameter_keys[i] \in DOMAIN element

\* name completion that overwrites a supplied name
completeName_always(element) ==
    update(element, [name |-> Text("Unnamed Function")])

\* readFunctions, lines 62-63: name completion
completeName(element) ==
    IF "name" \notin DOMAIN element
    THEN update(element, [name |-> Text("Unnamed Function")])
    ELSE element

\* parameter completion that fills in only the missing parameter
completeParams_onlyMissing(element) ==
    update([A |-> Text("0.0"), B |-> Text("0.0")], element)

\* readFunctions, lines 66-67: parameter completion
completeParams(element) ==
    IF ~checkFunction_params(element)
    THEN update(element, [A |-> Text("0.0"), B |-> Text("0.0")])
    ELSE element

\* a description completion that completes nothing
completeDesc_skipped(element) == element

\* readFunctions, lines 70-71: description completion
completeDesc(element) ==
    IF ~checkFunction_desc(element)
    THEN update(element, [A_desc |-> Text(""), B_desc |-> Text(""), desc |-> Text("")])
    ELSE element

\* the completions with the description check before the name completion
complete_descFirst(element) == completeParams(completeName(completeDesc(element)))

\* readFunctions, lines 62-71: the three completions in the order of the code
complete(element) == completeDesc(completeParams(completeName(element)))

\* remove_flag without lines 59-60: a record without raw is not flagged
removeFlag_rawOptional(element, chk) ==
    IF "raw" \in DOMAIN element THEN ~chk.ret ELSE FALSE

\* a remove_flag that also takes the placeholder name for a missing function
removeFlag_placeholderRejected(element, chk) ==
    IF "raw" \in DOMAIN element
    THEN ~chk.ret \/ ("name" \in DOMAIN element /\ element["name"].s = "Unnamed Function")
    ELSE TRUE

\* readFunctions, lines 54-60: remove_flag, given the outcome of the math check
removeFlag(element, chk) ==
    IF "raw" \in DOMAIN element THEN ~chk.ret ELSE TRUE

\* The body of the loop of readFunctions for one element:
\* [exc, element (as mutated), remove_flag].  An exception of the math
\* check leaves the loop before the element is touched.
loopBody(element) ==
    LET chk == IF "raw" \in DOMAIN element
               THEN checkFunction_math(element["raw"])
               ELSE [exc |-> NoExc, ret |-> FALSE]
    IN  IF chk.exc # NoExc
        THEN [exc |-> chk.exc, element |-> element, remove_flag |-> TRUE]
        ELSE [exc |-> NoExc, element |-> complete(element),
              remove_flag |-> removeFlag(element, chk)]

\* survivors collected at the front of the list
keep_prepend(cleaned, idx, remove_flag) ==
    IF remove_flag THEN cleaned ELSE <<idx>> \o cleaned

\* readFunctions, lines 73-74: a record that is not flagged is appended
keep(cleaned, idx, remove_flag) ==
    IF remove_flag THEN cleaned ELSE Append(cleaned, idx)

\* The loop of readFunctions from element idx on: [exc, data, cleaned].
RECURSIVE readLoop(_, _, _)
readLoop(data, idx, cleaned) ==
    IF idx > Len(data) THEN [exc |-> NoExc, data |-> data, cleaned |-> cleaned]
    ELSE LET b == loopBody(data[idx]) IN
         IF b.exc # NoExc THEN [exc |-> b.exc, data |-> data, cleaned |-> cleaned]
         ELSE readLoop([data EXCEPT ![idx] = b.element], idx + 1,
                       keep(cleaned, idx, b.remove_flag))

\* Parser.readFunctions on the parsed collection
readFunctions(data) == readLoop(data, 1, <<>>)

----------------------------------------------------------------------------
(* Record collections *)

Absent == [k |-> "absent", s |-> "", n |-> 0]

Keys == {"raw", "name", "A", "B", "desc", "A_desc", "B_desc"}

\* The dict holding the fields of f that are not Absent
mkRecord(f) == [key \in {q \in Keys : f[q] # Absent} |-> f[key]]

RawOptions == {Text(t) : t \in RawTexts} \cup {Absent}
NameOptions == {Text("Exp"), Absent}
AOptions == {Text("1.5"), Text("abc"), Absent}
BOptions == {Text("2.0"), Null, Absent}
DescOptions == {Text("d"), Absent}

\* Every record: each key present or absent, parameters coercible or not
FullRecords ==
    { mkRecord(f) : f \in [raw : RawOptions, name : NameOptions, A : AOptions, B : BOptions,
                           desc : DescOptions, A_desc : DescOptions, B_desc : DescOptions] }

\* Records that differ in what decides acceptance, for collections of several
SmallRecords ==
    { mkRecord(f) : f \in [raw : RawOptions, name : NameOptions, A : {Absent}, B : {Absent},
                           desc : {Absent}, A_desc : {Absent}, B_desc : {Absent}] }

SeqsUpTo(S, n) == UNION { [1..m -> S] : m \in 0..n }

\* One arbitrary record, or up to MaxRecords small ones
LoadInputs == { <<r>> : r \in FullRecords } \cup SeqsUpTo(SmallRecords, MaxRecords)

NoCall == [raw |-> Null, exc |-> NoExc, ret |-> FALSE]
NoLast == [op |-> "none", exc |-> NoExc, ret |-> Null]

\* A file that holds a JSON record collection and has not been opened
NoFile == [content |-> "json", state |-> "unopened"]

InitLoad ==
    /\ phase = "file"
    /\ input \in LoadInputs
    /\ function_data = input
    /\ functions = <<>>
    /\ mathCall = NoCall
    /\ objs = <<>>
    /\ hard = <<>>
    /\ last = NoLast
    /\ data_file = NoFile

\* Parser.__init__: self.functions = self.readFunctions(dir)
Load ==
    /\ phase = "file"
    /\ LET r == readFunctions(input) IN
        /\ phase' = IF r.exc = NoExc THEN "loaded" ELSE "raised"
        /\ function_data' = r.data
        /\ functions' = IF r.exc = NoExc THEN r.cleaned ELSE <<>>
    /\ data_file' = [data_file EXCEPT !.state = "closed"]   \* the with block is left before the loop
    /\ UNCHANGED <<input, mathCall, objs, hard, last>>

\* A direct call Parser.checkFunction_math(raw), as ParserTest makes
CheckMath(raw) ==
    /\ phase = "loaded"
    /\ LET r == checkFunction_math(Text(raw)) IN
        mathCall' = [raw |-> Text(raw), exc |-> r.exc, ret |-> r.ret]
    /\ UNCHANGED <<phase, input, function_data, functions, objs, hard, last, data_file>>

NextLoad == Load \/ \E raw \in RawTexts : CheckMath(raw)

SpecLoad == InitLoad /\ [][NextLoad]_vars

----------------------------------------------------------------------------
(* Claims about readFunctions and checkFunction_math, under SpecLoad *)

\* The raw field of a record, Absent when it has none
rawOf(element) == IF "raw" \in DOMAIN element THEN element["raw"] ELSE Absent

\* Input record i is referenced by the returned list
Survives(i) == \E j \in 1..Len(functions) : functions[j] = i

Accepted == [exc |-> NoExc, ret |-> TRUE]

\* C1: readFunctions returns a record if and only if it has a raw key and
\* checkFunction_math accepts its raw text; every returned record is one of
\* the input, with the raw text it came with.
C1_SurvivorsAreExactlyTheValid ==
    phase = "loaded" =>
        /\ \A j \in 1..Len(functions) :
              /\ functions[j] \in 1..Len(input)
              /\ rawOf(function_data[functions[j]]) = rawOf(input[functions[j]])
        /\ \A i \in 1..Len(input) :
              Survives(i) <=> /\ "raw" \in DOMAIN input[i]
                              /\ checkFunction_math(input[i]["raw"]) = Accepted

C1_Witness ==
    /\ phase = "loaded"
    /\ \E i, j, m \in 1..Len(input) :
          /\ "raw" \notin DOMAIN input[i] /\ ~Survives(i)
          /\ rawOf(input[j]) = Text("bananas") /\ ~Survives(j)
          /\ Survives(m)

\* C2: the returned list is a subsequence of the input: survivors keep
\* their relative order and none appears twice.
C2_SurvivorsKeepInputOrder ==
    phase = "loaded" =>
        \A j, m \in 1..Len(functions) : j < m => functions[j] < functions[m]

C2_Witness ==
    /\ phase = "loaded"
    /\ Len(input) = 3
    /\ functions = <<1, 3>>

\* C3: checkFunction_math returns False, and raises nothing, for every text
\* that fails to parse or names a variable outside {x, A, B}, whatever
\* failure the evaluator reports.
C3_UnparseableIsRejectedWithoutRaising ==
    (mathCall.raw.k = "text" /\ probe(mathCall.raw.s) \notin {NoExc, "ZeroDivisionError"}) =>
        (mathCall.exc = NoExc /\ mathCall.ret = FALSE)

\* C4: checkFunction_math returns True when the probe evaluation completes
\* or divides by zero, and readFunctions keeps a record whose only failure
\* is the division by zero.
C4_ZeroDivisionIsTolerated ==
    /\ (mathCall.raw.k = "text" /\ probe(mathCall.raw.s) \in {NoExc, "ZeroDivisionError"}) =>
          (mathCall.exc = NoExc /\ mathCall.ret = TRUE)
    /\ phase = "loaded" =>
          \A i \in 1..Len(input) :
              ("raw" \in DOMAIN input[i] /\ probe(input[i]["raw"].s) = "ZeroDivisionError")
                  => Survives(i)

C4_Witness ==
    /\ mathCall = [raw |-> Text("1/x"), exc |-> NoExc, ret |-> TRUE]
    /\ \E i \in 1..Len(input) : rawOf(input[i]) = Text("1/x") /\ Survives(i)

\* C5: after readFunctions every input record, kept or not, has A = B = "0.0"
\* when the input lacked A or B, and has both as supplied when it had both.
C5_ParametersAllOrNothing ==
    phase = "loaded" =>
        \A i \in 1..Len(input) :
            IF "A" \in DOMAIN input[i] /\ "B" \in DOMAIN input[i]
            THEN /\ function_data[i]["A"] = input[i]["A"]
                 /\ function_data[i]["B"] = input[i]["B"]
            ELSE /\ function_data[i]["A"] = Text("0.0")
                 /\ function_data[i]["B"] = Text("0.0")

C5_Witness ==
    /\ phase = "loaded"
    /\ \E i \in 1..Len(input) :
          /\ "A" \in DOMAIN input[i] /\ input[i]["A"] = Text("1.5")
          /\ "B" \notin DOMAIN input[i]
          /\ function_data[i]["A"] = Text("0.0")
          /\ ~Survives(i)

DescGroup == {"desc", "A_desc", "B_desc"}

\* C6: after readFunctions the three descriptions are all "" when any of
\* them was absent and are as supplied when all three were present, with or
\* without a name in the input.
C6_DescriptionsAllOrNothing ==
    phase = "loaded" =>
        \A i \in 1..Len(input) :
            IF DescGroup \subseteq DOMAIN input[i]
            THEN \A q \in DescGroup : function_data[i][q] = input[i][q]
            ELSE \A q \in DescGroup : function_data[i][q] = Text("")

C6_Witness ==
    /\ phase = "loaded"
    /\ \E i \in 1..Len(input) :
          /\ "name" \notin DOMAIN input[i]
          /\ DescGroup \subseteq DOMAIN input[i]
          /\ \A q \in DescGroup : function_data[i][q] = Text("d")

\* C7: a record without name gets "Unnamed Function", a supplied name is
\* kept, and two records with the same raw field are both kept or both
\* dropped whether or not they have a name.
C7_NameIsCompletedNeverRejected ==
    phase = "loaded" =>
        /\ \A i \in 1..Len(input) :
              function_data[i]["name"] =
                  IF "name" \in DOMAIN input[i] THEN input[i]["name"] ELSE Text("Unnamed Function")
        /\ \A i, j \in 1..Len(input) :
              rawOf(input[i]) = rawOf(input[j]) => (Survives(i) <=> Survives(j))

C7_Witness ==
    /\ phase = "loaded"
    /\ \E i, j \in 1..Len(input) :
          /\ rawOf(input[i]) = rawOf(input[j])
          /\ "name" \in DOMAIN input[i] /\ function_data[i]["name"] = Text("Exp")
          /\ "name" \notin DOMAIN input[j] /\ function_data[j]["name"] = Text("Unnamed Function")
          /\ Survives(i) /\ Survives(j)

----------------------------------------------------------------------------
(* returnFunction and the Function class *)

\* An indexing that wraps every index around a non-empty list
pyIndex_wrap(seq, index) ==
    IF Len(seq) = 0 THEN [exc |-> "IndexError", val |-> 0]
    ELSE [exc |-> NoExc, val |-> seq[(index % Len(seq)) + 1]]

\* Python's seq[index] on a list, index 0-based: a negative index counts
\* from the end, anything outside -len..len-1 is an IndexError.
pyIndex(seq, index) ==
    IF 0 <= index /\ index < Len(seq) THEN [exc |-> NoExc, val |-> seq[index + 1]]
    ELSE IF -Len(seq) <= index /\ index < 0 THEN [exc |-> NoExc, val |-> seq[Len(seq) + index + 1]]
    ELSE [exc |-> "IndexError", val |-> 0]

\* One parameter of Function.__init__: float of the record's field, 0.0 on
\* a ValueError; any other exception leaves the constructor.
initParam(v) ==
    LET f == float(v) IN
    IF f.exc = "ValueError" THEN [exc |-> NoExc, val |-> Num(0)] ELSE f

\* Function.__init__(fun_template): [exc, obj]; ref is the reference to the
\* record, data the dicts it refers into.
Function_init(ref, data) ==
    LET a == initParam(data[ref]["A"])
        b == initParam(data[ref]["B"])
    IN  IF a.exc # NoExc THEN [exc |-> a.exc, obj |-> Null]
        ELSE IF b.exc # NoExc THEN [exc |-> b.exc, obj |-> Null]
        ELSE [exc |-> NoExc,
              obj |-> [A |-> a.val, B |-> b.val, raw |-> data[ref]["raw"],
                       function_template |-> ref]]

\* Parser.returnFunction(index): [exc, obj]
returnFunction(index) ==
    LET selected_function == pyIndex(functions, index) IN
    IF selected_function.exc # NoExc THEN [exc |-> selected_function.exc, obj |-> Null]
    ELSE Function_init(selected_function.val, function_data)

\* The setter that commits whatever it is given
Function_set_value_unchecked(self, rec, p, v) ==
    [exc |-> NoExc, self |-> [self EXCEPT ![p] = v], rec |-> update(rec, p :> v)]

\* The setter that replaces the template by the new parameter alone
Function_set_value_replace(self, rec, p, v) ==
    LET f == float(v) IN
    IF f.exc = "ValueError" THEN [exc |-> NoExc, self |-> self, rec |-> rec]
    ELSE IF f.exc # NoExc THEN [exc |-> f.exc, self |-> self, rec |-> rec]
    ELSE [exc |-> NoExc, self |-> [self EXCEPT ![p] = v], rec |-> p :> v]

\* The setter that writes its argument to both parameters
Function_set_value_both(self, rec, p, v) ==
    LET f == float(v) IN
    IF f.exc = "ValueError" THEN [exc |-> NoExc, self |-> self, rec |-> rec]
    ELSE IF f.exc # NoExc THEN [exc |-> f.exc, self |-> self, rec |-> rec]
    ELSE [exc |-> NoExc, self |-> [self EXCEPT !.A = v, !.B = v],
          rec |-> update(rec, [A |-> v, B |-> v])]

\* Function.set_A_value / set_B_value (p is "A" or "B") on object self with
\* template rec: [exc, self, rec].  float(v) is only a test: a ValueError is
\* swallowed, any other exception propagates, and on success the argument
\* itself is stored in the object and in the template.
Function_set_value(self, rec, p, v) ==
    LET f == float(v) IN
    IF f.exc = "ValueError" THEN [exc |-> NoExc, self |-> self, rec |-> rec]
    ELSE IF f.exc # NoExc THEN [exc |-> f.exc, self |-> self, rec |-> rec]
    ELSE [exc |-> NoExc, self |-> [self EXCEPT ![p] = v], rec |-> update(rec, p :> v)]

\* Function.get_name
Function_get_name(rec) ==
    IF "name" \in DOMAIN rec THEN rec["name"] ELSE Text("Unnamed_Function")

\* A get_description with the default of get_name
Function_get_description_nameDefault(rec, key) ==
    IF key \in DOMAIN rec THEN rec[key] ELSE Text("Unnamed_Function")

\* Function.get_description
Function_get_description(rec, key) ==
    IF key \in DOMAIN rec THEN rec[key] ELSE Text("")

\* f(x=value, A=A, B=B) of the expression built from raw, for the raw texts
\* that pass checkFunction_math and float value: [exc, val].  Numbers are in
\* tenths; a text operand of * or + with a float is a TypeError.
eqCall(raw, value, A, B) ==
    CASE raw = "A*x+B" ->
            IF A.k # "num" \/ B.k # "num" THEN [exc |-> "TypeError", val |-> Null]
            ELSE [exc |-> NoExc, val |-> Num((A.n * value.n) \div 10 + B.n)]
      [] raw = "1/x" ->
            IF value.n = 0 THEN [exc |-> "ZeroDivisionError", val |-> Null]
            ELSE [exc |-> NoExc, val |-> Num(100 \div value.n)]

\* An evaluate that keeps the numbers it read: a text parameter is replaced
\* by the number it denotes
Function_evaluate_storing(self, value) ==
    LET r == eqCall(self.raw.s, value, self.A, self.B)
        kept == [self EXCEPT !.B = IF float(self.B).exc = NoExc THEN float(self.B).val ELSE self.B]
    IN
    IF r.exc = "ValueError" THEN [exc |-> NoExc, ret |-> Null, self |-> kept]
    ELSE IF r.exc # NoExc THEN [exc |-> r.exc, ret |-> Null, self |-> kept]
    ELSE [exc |-> NoExc, ret |-> r.val, self |-> kept]

\* Function.evaluate(value): [exc, ret, self]; only a ValueError becomes
\* None, and the body assigns no attribute of self
Function_evaluate(self, value) ==
    LET r == eqCall(self.raw.s, value, self.A, self.B) IN
    IF r.exc = "ValueError" THEN [exc |-> NoExc, ret |-> Null, self |-> self]
    ELSE IF r.exc # NoExc THEN [exc |-> r.exc, ret |-> Null, self |-> self]
    ELSE [exc |-> NoExc, ret |-> r.val, self |-> self]

----------------------------------------------------------------------------
(* The life of a loaded Parser *)

MinimalRecord == [raw |-> Text("A*x+B")]
FullRecord(raw, A, B) ==
    [raw |-> Text(raw), name |-> Text("Exp"), A |-> A, B |-> B,
     desc |-> Text("d"), A_desc |-> Text("dA"), B_desc |-> Text("dB")]

RejectedRecord == [raw |-> Text("bananas")]
TextARecord == FullRecord("1/x", Text("abc"), Text("2.0"))
NullBRecord == FullRecord("A*x+B", Text("1.5"), Null)

\* The record collections whose Parser is then used: the empty one, the
\* single minimal record, a rejected record in front of two valid ones (the
\* first with an A that is no numeral), and a record whose B is null
LiveInputs ==
    { <<>>,
      <<MinimalRecord>>,
      <<RejectedRecord, TextARecord, MinimalRecord>>,
      <<NullBRecord>> }

\* Arguments of the setters: text that is no numeral, None, and one
\* argument that coerces: the number 2.5 for set_A_value and the numeric
\* text "3.0" for set_B_value
SetValues(p) ==
    {Text("abc"), Null} \cup (IF p = "A" THEN {Num(25)} ELSE {Text("3.0")})

\* Arguments of evaluate: 0.0, 1.0 and 2.0
EvalValues == {Num(0), Num(10), Num(20)}

\* Arguments of get_description
DescKeys == DescGroup \cup {"units"}

Indices == (0 - MaxIndex - 1)..MaxIndex

\* The hardcoded functions of CZApp.function_list that can be constructed

\* DampedOscillator(): A=10, B=2
DampedOscillator == [name |-> Text("Damped_Oscillator"), _A |-> Num(100), _B |-> Num(20)]

\* UnstableOscillator(): A=10, B=2
UnstableOscillator == [name |-> Text("Unstable_Oscillator"), _A |-> Num(100), _B |-> Num(20)]

\* The attribute behind parameter p
attr(p) == "_" \o p

\* sin(2*pi*x) to the precision of the model's numbers (tenths), at the
\* multiples of 0.5, where it is 0
sin2pi(x) == CASE x.n % 5 = 0 -> 0

\* DampedOscillator.evaluate: A * sin(2*pi*x) * exp(-x / B) for a B that is
\* not 0 (no setter argument of the model is 0), a read of _A and _B only:
\* [exc, ret, self]
DampedOscillator_evaluate(self, xvals) ==
    [exc |-> NoExc, ret |-> Num(self._A.n * sin2pi(xvals)), self |-> self]

\* UnstableOscillator.evaluate: A * sin(2*pi*x) * exp(x / B), likewise
UnstableOscillator_evaluate(self, xvals) ==
    [exc |-> NoExc, ret |-> Num(self._A.n * sin2pi(xvals)), self |-> self]

Init ==
    /\ phase = "file"
    /\ input \in LiveInputs
    /\ function_data = input
    /\ functions = <<>>
    /\ mathCall = NoCall
    /\ objs = <<>>
    /\ hard = <<DampedOscillator, UnstableOscillator>>   \* the two oscillators of function_list
    /\ last = NoLast
    /\ data_file = NoFile

\* function = parser.returnFunction(index)
ReturnFunction(index) ==
    /\ phase = "loaded"
    /\ Len(objs) < MaxFunctions
    /\ LET r == returnFunction(index) IN
        /\ objs' = IF r.exc = NoExc THEN Append(objs, r.obj) ELSE objs
        /\ last' = [op |-> "returnFunction", exc |-> r.exc, ret |-> Null]
    /\ UNCHANGED <<phase, input, function_data, functions, mathCall, hard, data_file>>

\* objs[o].set_A_value(v) or objs[o].set_B_value(v)
SetValue(o, p, v) ==
    /\ o \in 1..Len(objs)
    /\ LET ref == objs[o].function_template
           r == Function_set_value(objs[o], function_data[ref], p, v)
       IN /\ last' = [op |-> "set_" \o p \o "_value", exc |-> r.exc, ret |-> Null]
          /\ objs' = [objs EXCEPT ![o] = r.self]
          /\ function_data' = [function_data EXCEPT ![ref] = r.rec]
    /\ UNCHANGED <<phase, input, functions, mathCall, hard, data_file>>

\* objs[o].get_A_value() or objs[o].get_B_value()
GetValue(o, p) ==
    /\ o \in 1..Len(objs)
    /\ last' = [op |-> "get_" \o p \o "_value", exc |-> NoExc, ret |-> objs[o][p]]
    /\ UNCHANGED <<phase, input, function_data, functions, mathCall, objs, hard, data_file>>

\* objs[o].get_name()
GetName(o) ==
    /\ o \in 1..Len(objs)
    /\ last' = [op |-> "get_name", exc |-> NoExc,
                ret |-> Function_get_name(function_data[objs[o].function_template])]
    /\ UNCHANGED <<phase, input, function_data, functions, mathCall, objs, hard, data_file>>

\* objs[o].get_raw()
GetRaw(o) ==
    /\ o \in 1..Len(objs)
    /\ last' = [op |-> "get_raw", exc |-> NoExc, ret |-> objs[o].raw]
    /\ UNCHANGED <<phase, input, function_data, functions, mathCall, objs, hard, data_file>>

\* objs[o].get_description(key)
GetDescription(o, key) ==
    /\ o \in 1..Len(objs)
    /\ last' = [op |-> "get_description", exc |-> NoExc,
                ret |-> Function_get_description(function_data[objs[o].function_template], key)]
    /\ UNCHANGED <<phase, input, function_data, functions, mathCall, objs, hard, data_file>>

\* objs[o].evaluate(value)
Evaluate(o, value) ==
    /\ o \in 1..Len(objs)
    /\ LET r == Function_evaluate(objs[o], value) IN
        /\ last' = [op |-> "evaluate", exc |-> r.exc, ret |-> r.ret]
        /\ objs' = [objs EXCEPT ![o] = r.self]
    /\ UNCHANGED <<phase, input, function_data, functions, mathCall, hard, data_file>>

\* The evaluate of the class of a hardcoded function
hardEvaluate(self, xvals) ==
    IF self.name = DampedOscillator.name THEN DampedOscillator_evaluate(self, xvals)
    ELSE UnstableOscillator_evaluate(self, xvals)

\* hard[h].evaluate(value)
EvaluateHard(h, value) ==
    /\ h \in 1..Len(hard)
    /\ LET r == hardEvaluate(hard[h], value) IN
        /\ last' = [op |-> "evaluate", exc |-> r.exc, ret |-> r.ret]
        /\ hard' = [hard EXCEPT ![h] = r.self]
    /\ UNCHANGED <<phase, input, function_data, functions, mathCall, objs, data_file>>

Next ==
    \/ Load
    \/ \E index \in Indices : ReturnFunction(index)
    \/ \E o \in 1..MaxFunctions, p \in {"A", "B"} : \E v \in SetValues(p) : SetValue(o, p, v)
    \/ \E o \in 1..MaxFunctions, p \in {"A", "B"} : GetValue(o, p)
    \/ \E o \in 1..MaxFunctions : GetName(o)
    \/ \E o \in 1..MaxFunctions : GetRaw(o)
    \/ \E o \in 1..MaxFunctions, key \in DescKeys : GetDescription(o, key)
    \/ \E o \in 1..MaxFunctions, value \in EvalValues : Evaluate(o, value)
    \/ \E h \in 1..Len(hard), value \in EvalValues : EvaluateHard(h, value)

Spec == Init /\ [][Next]_vars

----------------------------------------------------------------------------
(* Claims about the records of a Parser in use, under Spec *)

\* The record behind position j of Parser.functions
recordAt(j) == function_data[functions[j]]

\* C8: in every reachable state every element of Parser.functions carries
\* the seven keys and a raw text that checkFunction_math accepts.
C8_RecordsKeepTheirShape ==
    phase = "loaded" =>
        \A j \in 1..Len(functions) :
            /\ Keys \subseteq DOMAIN recordAt(j)
            /\ checkFunction_math(recordAt(j)["raw"]) = Accepted

C8_Witness ==
    /\ phase = "loaded"
    /\ last = [op |-> "set_A_value", exc |-> NoExc, ret |-> Null]
    /\ \E j \in 1..Len(functions) : recordAt(j)["A"] = Num(25)

\* C9: in every reachable state the A and B fields of every record in
\* Parser.functions are texts that coerce to a number, whatever the input
\* supplied for them.
C9_ParametersAreNumericText ==
    phase = "loaded" =>
        \A j \in 1..Len(functions) : \A p \in {"A", "B"} :
            recordAt(j)[p].k = "text" /\ float(recordAt(j)[p]).exc = NoExc

\* C9 as amended: each A and B field coerces to a number (the default, or
\* the argument of a committed setter call) or is still the value the input
\* supplied for it in a record that came with both A and B.
C9_ParametersCoerceOrAreAsSupplied ==
    phase = "loaded" =>
        \A j \in 1..Len(functions) : \A p \in {"A", "B"} :
            \/ float(recordAt(j)[p]).exc = NoExc
            \/ /\ {"A", "B"} \subseteq DOMAIN input[functions[j]]
               /\ recordAt(j)[p] = input[functions[j]][p]

C9_Witness ==
    /\ phase = "loaded"
    /\ last = [op |-> "set_B_value", exc |-> NoExc, ret |-> Null]
    /\ \E j \in 1..Len(functions) :
          /\ recordAt(j)["A"] = Text("abc")
          /\ input[functions[j]]["B"] = Text("2.0")
          /\ recordAt(j)["B"] = Text("3.0")

----------------------------------------------------------------------------
(* The hardcoded functions and the setters of TwoParameterFunction *)

\* The strict setter that stores before it checks
TwoParameterFunction_set_value_storeFirst(self, p, v) ==
    LET f == float(v) IN
    IF f.exc # NoExc THEN [exc |-> "InvalidParameter", self |-> [self EXCEPT ![attr(p)] = v]]
    ELSE [exc |-> NoExc, self |-> [self EXCEPT ![attr(p)] = f.val]]

\* TwoParameterFunction.set_A_value / set_B_value (p is "A" or "B"):
\* [exc, self].  Any exception of float(v) becomes InvalidParameter, raised
\* before the assignment.
TwoParameterFunction_set_value(self, p, v) ==
    LET f == float(v) IN
    IF f.exc # NoExc THEN [exc |-> "InvalidParameter", self |-> self]
    ELSE [exc |-> NoExc, self |-> [self EXCEPT ![attr(p)] = f.val]]

\* TwoParameterFunction.get_A_value / get_B_value
TwoParameterFunction_get_value(self, p) == self[attr(p)]

\* Arguments of the strict setters
StrictValues == {Text("3.0"), Text("1.5"), Num(25), Text("abc"), Text(""), Null}

InitStrict ==
    /\ phase = "file"
    /\ input = <<>>
    /\ function_data = <<>>
    /\ functions = <<>>
    /\ mathCall = NoCall
    /\ objs = <<>>
    /\ hard = <<DampedOscillator, UnstableOscillator>>   \* the two oscillators of function_list
    /\ last = NoLast
    /\ data_file = NoFile

\* hard[h].set_A_value(v) or hard[h].set_B_value(v)
StrictSet(h, p, v) ==
    /\ h \in 1..Len(hard)
    /\ LET r == TwoParameterFunction_set_value(hard[h], p, v) IN
        /\ hard' = [hard EXCEPT ![h] = r.self]
        /\ last' = [op |-> "set_" \o p \o "_value", exc |-> r.exc, ret |-> Null]
    /\ UNCHANGED <<phase, input, function_data, functions, mathCall, objs, data_file>>

\* hard[h].get_A_value() or hard[h].get_B_value()
StrictGet(h, p) ==
    /\ h \in 1..Len(hard)
    /\ last' = [op |-> "get_" \o p \o "_value", exc |-> NoExc,
                ret |-> TwoParameterFunction_get_value(hard[h], p)]
    /\ UNCHANGED <<phase, input, function_data, functions, mathCall, objs, hard, data_file>>

NextStrict ==
    \/ \E h \in 1..Len(hard), p \in {"A", "B"}, v \in StrictValues : StrictSet(h, p, v)
    \/ \E h \in 1..Len(hard), p \in {"A", "B"} : StrictGet(h, p)
    \/ \E h \in 1..Len(hard), value \in EvalValues : EvaluateHard(h, value)

SpecStrict == InitStrict /\ [][NextStrict]_vars

\* The other parameter of p
other(p) == IF p = "A" THEN "B" ELSE "A"

\* C10: a strict setter call with an argument that does not coerce to a
\* float raises InvalidParameter and leaves every stored A and B as it was;
\* with a coercible argument it stores the number the argument denotes in
\* the parameter it names and changes nothing else.
C10_StrictSetterRaisesOrStores ==
    [][\A h \in 1..Len(hard), p \in {"A", "B"}, v \in StrictValues :
          StrictSet(h, p, v) =>
              IF float(v).exc # NoExc
              THEN last'.exc = "InvalidParameter" /\ hard' = hard
              ELSE /\ last'.exc = NoExc
                   /\ hard'[h][attr(p)] = float(v).val
                   /\ hard'[h][attr(p)].k = "num"
                   /\ hard'[h][attr(other(p))] = hard[h][attr(other(p))]
                   /\ \A g \in 1..Len(hard) : g # h => hard'[g] = hard[g]]_vars

C10_Witness ==
    /\ last = [op |-> "set_A_value", exc |-> "InvalidParameter", ret |-> Null]
    /\ hard[1]["_A"] = Num(30)
    /\ hard[2]["_B"] = Num(15)

----------------------------------------------------------------------------
(* Claims about the Function objects of a Parser, under Spec *)

\* The record a Function object refers to
templateOf(o) == function_data[objs[o].function_template]

\* C11: on a Function, a setter call whose argument fails numeric coercion
\* (text that is no numeral, or a value that is no text, such as null)
\* raises nothing and changes neither the object nor any record.
C11_FailedSetterIsSilentNoOp ==
    [][\A o \in 1..Len(objs), p \in {"A", "B"} : \A v \in SetValues(p) :
          (SetValue(o, p, v) /\ float(v).exc # NoExc) =>
              /\ last'.exc = NoExc
              /\ objs' = objs
              /\ function_data' = function_data]_vars

\* C12: get_A_value() and get_B_value() of every function object, hardcoded
\* or parsed, are numbers and never text, whatever was passed to the setters.
C12_ParametersAreNumbers ==
    /\ \A o \in 1..Len(objs) : \A p \in {"A", "B"} : objs[o][p].k = "num"
    /\ \A h \in 1..Len(hard) : \A p \in {"A", "B"} : hard[h][attr(p)].k = "num"
    /\ last.op \in {"get_A_value", "get_B_value"} => last.ret.k = "num"

\* The parameter Function.__init__ is said to store for a record field
expectedParam(v) == IF float(v).exc = NoExc THEN float(v).val ELSE Num(0)

\* C13: returnFunction on a position of the validated list raises nothing,
\* whatever makes the A or B of the record fail numeric coercion, and the
\* Function it returns has 0.0 for a field that fails and the numeric value
\* of the field otherwise.
C13_InstantiationRecoversFromAnyValue ==
    [][\A index \in Indices :
          (ReturnFunction(index) /\ 0 <= index /\ index < Len(functions)) =>
              /\ last'.exc = NoExc
              /\ Len(objs') = Len(objs) + 1
              /\ \A p \in {"A", "B"} :
                    objs'[Len(objs')][p] = expectedParam(recordAt(index + 1)[p])]_vars

\* C14: evaluate never propagates an exception: it returns None when the
\* evaluation of the expression fails (type failure, division by zero) and
\* the value of the expression otherwise.
C14_EvaluateNeverRaises ==
    [][\A o \in 1..Len(objs), value \in EvalValues :
          Evaluate(o, value) =>
              LET r == eqCall(objs[o].raw.s, value, objs[o].A, objs[o].B) IN
              /\ last'.exc = NoExc
              /\ last'.ret = IF r.exc # NoExc THEN Null ELSE r.val]_vars

\* The defaults readFunctions gives the record that has only a raw
MinimalDefaults ==
    [name |-> Text("Unnamed Function"), A |-> Text("0.0"), B |-> Text("0.0"),
     desc |-> Text(""), A_desc |-> Text(""), B_desc |-> Text("")]

\* C15: for the input [{"raw":"A*x+B"}], load leaves exactly one survivor,
\* with name "Unnamed Function", A and B "0.0" and empty descriptions;
\* returnFunction(0) on it gives a Function with A = B = 0, whose evaluate
\* returns 0 at each of x = 0, 1 and 2.
C15_MinimalRecordEndToEnd ==
    [][input = <<MinimalRecord>> =>
          /\ Load =>
                /\ phase' = "loaded"
                /\ functions' = <<1>>
                /\ function_data'[1]["raw"] = Text("A*x+B")
                /\ \A key \in DOMAIN MinimalDefaults :
                      /\ key \in DOMAIN function_data'[1]
                      /\ function_data'[1][key] = MinimalDefaults[key]
          /\ (ReturnFunction(0) /\ \A p \in {"A", "B"} : recordAt(1)[p] = Text("0.0")) =>
                /\ last'.exc = NoExc
                /\ Len(objs') = Len(objs) + 1
                /\ objs'[Len(objs')].A = Num(0)
                /\ objs'[Len(objs')].B = Num(0)
          /\ \A o \in 1..Len(objs), value \in EvalValues :
                (Evaluate(o, value) /\ objs[o].A = Num(0) /\ objs[o].B = Num(0)) =>
                    last' = [op |-> "evaluate", exc |-> NoExc, ret |-> Num(0)]]_vars

\* The minimal record has been loaded, instantiated with its defaults and
\* evaluated to 0
C15_Witness ==
    /\ input = <<MinimalRecord>>
    /\ functions = <<1>>
    /\ recordAt(1)["name"] = Text("Unnamed Function")
    /\ recordAt(1)["A"] = Text("0.0")
    /\ recordAt(1)["A_desc"] = Text("")
    /\ Len(objs) = 1
    /\ objs[1].A = Num(0) /\ objs[1].B = Num(0)
    /\ last = [op |-> "evaluate", exc |-> NoExc, ret |-> Num(0)]

\* C16: in every reachable state, the A and B of each Function are the
\* numeric values of the A and B fields of the record it was built from,
\* also after setter calls and when several Functions share one record.
C16_ObjectsMatchTheirRecords ==
    \A o \in 1..Len(objs) : \A p \in {"A", "B"} :
        /\ float(templateOf(o)[p]).exc = NoExc
        /\ objs[o][p] = float(templateOf(o)[p]).val

\* C17: get_description(key) returns the text stored under key in the
\* Function's record, and "" when the record has no such key; get_name()
\* returns the record's name, and "Unnamed_Function" when it has none;
\* neither raises and neither changes a record or a Function.
C17_DescriptionGettersReadTheRecord ==
    [][last'.op \in {"get_description", "get_name"} => \A o \in 1..Len(objs) :
          /\ \A key \in DescKeys :
                GetDescription(o, key) =>
                    /\ last'.exc = NoExc
                    /\ last'.ret = IF key \in DOMAIN templateOf(o)
                                   THEN templateOf(o)[key] ELSE Text("")
                    /\ objs' = objs /\ function_data' = function_data
          /\ GetName(o) =>
                /\ last'.exc = NoExc
                /\ last'.ret = IF "name" \in DOMAIN templateOf(o)
                               THEN templateOf(o)["name"] ELSE Text("Unnamed_Function")
                /\ objs' = objs /\ function_data' = function_data]_vars

\* A Function whose record has all its descriptions non-empty was asked for
\* a key the record does not have
C17_Witness ==
    /\ Len(objs) = 1
    /\ \A key \in DescGroup : templateOf(1)[key] \notin {Text(""), Absent}
    /\ last = [op |-> "get_description", exc |-> NoExc, ret |-> Text("")]

\* C18 as stated: returnFunction(index) returns a Function only for
\* 0 <= index < len(functions); every other index, negative ones included,
\* fails with an out-of-bounds error and returns no Function.
C18_OnlyPositionsReturnAFunction ==
    [][\A index \in Indices :
          (ReturnFunction(index) /\ ~(0 <= index /\ index < Len(functions))) =>
              /\ last'.exc = "IndexError"
              /\ objs' = objs]_vars

\* C18: returnFunction(index) indexes the validated list as Python does.
\* For -len(functions) <= index < len(functions) it raises no out-of-bounds
\* error and the Function it returns is built from the record at position
\* index, counted from the end when index is negative; for every other
\* index it fails with an out-of-bounds error and returns no Function.
C18_IndexIsAListIndex ==
    [][\A index \in Indices :
          ReturnFunction(index) =>
              IF 0 - Len(functions) <= index /\ index < Len(functions)
              THEN /\ last'.exc # "IndexError"
                   /\ last'.exc = NoExc =>
                        /\ Len(objs') = Len(objs) + 1
                        /\ objs'[Len(objs')].function_template =
                              functions[(IF index < 0 THEN Len(functions) + index ELSE index) + 1]
                   /\ last'.exc # NoExc => objs' = objs
              ELSE /\ last'.exc = "IndexError"
                   /\ objs' = objs]_vars

\* With two validated records and one Function already returned, a call of
\* returnFunction failed with an out-of-bounds error
C18_Witness ==
    /\ Len(functions) = 2
    /\ Len(objs) = 1
    /\ objs[1].function_template = functions[2]
    /\ last = [op |-> "returnFunction", exc |-> "IndexError", ret |-> Null]

\* C19: evaluate is pure on every function variant: a call, successful or
\* failing, leaves A, B, the raw text, the records and Parser.functions
\* unchanged, and the same call made again right after it has the same
\* outcome.
C19_EvaluateIsPure ==
    [][(/\ last'.op = "evaluate"
        /\ \/ \E o \in 1..Len(objs), value \in EvalValues : Evaluate(o, value)
           \/ \E h \in 1..Len(hard), value \in EvalValues : EvaluateHard(h, value)) =>
          /\ objs' = objs /\ hard' = hard
          /\ function_data' = function_data /\ functions' = functions
          /\ \A o \in 1..Len(objs), value \in EvalValues :
                LET r == Function_evaluate(objs[o], value)
                    again == Function_evaluate(objs'[o], value)
                IN  (last'.exc = r.exc /\ last'.ret = r.ret) =>
                        (again.exc = r.exc /\ again.ret = r.ret)
          /\ \A h \in 1..Len(hard), value \in EvalValues :
                LET r == hardEvaluate(hard[h], value)
                    again == hardEvaluate(hard'[h], value)
                IN  (last'.exc = r.exc /\ last'.ret = r.ret) =>
                        (again.exc = r.exc /\ again.ret = r.ret)]_vars

\* An evaluate failed on a Function whose B is numeric text, and the text
\* is still there; the hardcoded functions are as constructed
C19_Witness ==
    /\ Len(objs) = 1
    /\ objs[1].B = Text("3.0")
    /\ templateOf(1)["B"] = Text("3.0")
    /\ hard = <<DampedOscillator, UnstableOscillator>>
    /\ last = [op |-> "evaluate", exc |-> "TypeError", ret |-> Null]

\* C20: after load, the records change only through set_A_value and
\* set_B_value of a Function: every other call leaves all records and the
\* validated list as they were, and a successful set_A_value (set_B_value)
\* changes the A (B) field of the Function's own record and the A (B) of
\* that Function, and nothing else: not the other parameter, raw, name or a
\* description, not another record, not another Function.
C20_RecordsChangeOnlyThroughSetters ==
    [][phase = "loaded" =>
          /\ functions' = functions
          /\ function_data' # function_data =>
                last'.op \in {"set_A_value", "set_B_value"} /\ last'.exc = NoExc
          /\ (last'.op \in {"set_A_value", "set_B_value"} /\ last'.exc = NoExc) =>
                \A p \in {"A", "B"} : \A v \in SetValues(p), o \in 1..Len(objs) :
                    (/\ last'.op = "set_" \o p \o "_value"
                     /\ float(v).exc = NoExc
                     /\ SetValue(o, p, v)) =>
                        LET ref == objs[o].function_template IN
                        /\ function_data' =
                              [function_data EXCEPT ![ref] = [@ EXCEPT ![p] = v]]
                        /\ objs' = [objs EXCEPT ![o] = [@ EXCEPT ![p] = v]]]_vars

\* Two Functions on two records; set_A_value(2.5) on the first one reached
\* its record and its A, while its B, the other record and the other
\* Function are as load and returnFunction left them
C20_Witness ==
    /\ functions = <<2, 3>>
    /\ Len(objs) = 2
    /\ objs[1].function_template = 3 /\ objs[2].function_template = 2
    /\ objs[1].A = Num(25) /\ objs[1].B = Num(0)
    /\ function_data[3]["A"] = Num(25) /\ function_data[3]["B"] = Text("0.0")
    /\ function_data[2] = TextARecord
    /\ objs[2].A = Num(0) /\ objs[2].B = Num(20)
    /\ last = [op |-> "set_A_value", exc |-> NoExc, ret |-> Null]

----------------------------------------------------------------------------
(* readFunctions statement by statement: the with block, then the loop *)

\* What the file at dir can be: absent (open raises), bytes that are no
\* UTF-8 (read raises), text that is no JSON (json.loads raises), or a JSON
\* record collection
FileContents == {"missing", "undecodable", "malformed", "json"}

\* The record collections a JSON file holds
FileInputs == LiveInputs \cup { <<r>> : r \in FullRecords }

\* A block exit that closes the handle only when the block ends normally
with_exit_onReturnOnly(state, exc) == IF exc = NoExc THEN "closed" ELSE state

\* Leaving the with block, normally or by the exception exc: the context
\* manager of the file object closes the handle
with_exit(state, exc) == "closed"

\* readFunctions raising exc
raise(exc) == [op |-> "readFunctions", exc |-> exc, ret |-> Null]

InitFile ==
    /\ phase = "file"
    /\ data_file \in [content : FileContents, state : {"unopened"}]
    /\ input \in IF data_file.content = "json" THEN FileInputs ELSE {<<>>}
    /\ function_data = <<>>
    /\ functions = <<>>
    /\ mathCall = NoCall
    /\ objs = <<>>
    /\ hard = <<>>
    /\ last = NoLast

\* open(dir, encoding='utf-8')
OpenFile ==
    /\ phase = "file"
    /\ IF data_file.content = "missing"
       THEN /\ phase' = "raised"
            /\ last' = raise("FileNotFoundError")
            /\ UNCHANGED data_file
       ELSE /\ phase' = "opened"
            /\ data_file' = [data_file EXCEPT !.state = "open"]
            /\ UNCHANGED last
    /\ UNCHANGED <<input, function_data, functions, mathCall, objs, hard>>

\* data_file.read()
ReadFile ==
    /\ phase = "opened"
    /\ IF data_file.content = "undecodable"
       THEN /\ phase' = "raised"
            /\ last' = raise("UnicodeDecodeError")
            /\ data_file' = [data_file EXCEPT !.state = with_exit(@, "UnicodeDecodeError")]
       ELSE /\ phase' = "read"
            /\ UNCHANGED <<last, data_file>>
    /\ UNCHANGED <<input, function_data, functions, mathCall, objs, hard>>

\* function_data = json.loads(...)
ParseFile ==
    /\ phase = "read"
    /\ IF data_file.content = "malformed"
       THEN /\ phase' = "raised"
            /\ last' = raise("JSONDecodeError")
            /\ data_file' = [data_file EXCEPT !.state = with_exit(@, "JSONDecodeError")]
            /\ UNCHANGED function_data
       ELSE /\ phase' = "parsed"
            /\ function_data' = input
            /\ UNCHANGED <<last, data_file>>
    /\ UNCHANGED <<input, functions, mathCall, objs, hard>>

\* the end of the with block
LeaveWith ==
    /\ phase = "parsed"
    /\ phase' = "validating"
    /\ data_file' = [data_file EXCEPT !.state = with_exit(@, NoExc)]
    /\ UNCHANGED <<input, function_data, functions, mathCall, objs, hard, last>>

\* the loop over function_data and the return
Validate ==
    /\ phase = "validating"
    /\ LET r == readFunctions(function_data) IN
        /\ phase' = IF r.exc = NoExc THEN "loaded" ELSE "raised"
        /\ function_data' = r.data
        /\ functions' = IF r.exc = NoExc THEN r.cleaned ELSE <<>>
        /\ last' = IF r.exc = NoExc THEN last ELSE raise(r.exc)
    /\ UNCHANGED <<input, mathCall, objs, hard, data_file>>

NextFile == OpenFile \/ ReadFile \/ ParseFile \/ LeaveWith \/ Validate

SpecFile == InitFile /\ [][NextFile]_vars

\* C21: the handle readFunctions opens is closed on every exit path: once
\* readFunctions has returned or raised, no handle is open, and the handle
\* is closed before the first record is validated.
C21_HandleClosedOnEveryExit ==
    /\ phase \in {"loaded", "raised"} => data_file.state # "open"
    /\ phase \in {"validating", "loaded"} => data_file.state = "closed"
    /\ function_data # <<>> /\ function_data # input => data_file.state = "closed"

\* readFunctions raised on text that is no JSON, after the handle was
\* opened, and the handle is closed
C21_Witness ==
    /\ phase = "raised"
    /\ data_file = [content |-> "malformed", state |-> "closed"]
    /\ last = raise("JSONDecodeError")

----------------------------------------------------------------------------
(* Validation applied to its own output, under SpecLoad *)

\* The list readFunctions returned: the dicts behind Parser.functions
returned == [j \in 1..Len(functions) |-> recordAt(j)]

\* C22: validation is idempotent on its own output: the per-record steps of
\* readFunctions, applied to a list that readFunctions returned, raise
\* nothing, reject no record and change no field of any record.
C22_ValidationIsIdempotent ==
    phase = "loaded" =>
        LET again == readFunctions(returned) IN
        /\ again.exc = NoExc
        /\ again.cleaned = [j \in 1..Len(functions) |-> j]
        /\ again.data = returned

\* A load that rejected a record and returned one it had to give a name,
\* parameters and descriptions
C22_Witness ==
    /\ phase = "loaded"
    /\ Len(functions) >= 1
    /\ Len(functions) < Len(input)
    /\ \E j \in 1..Len(functions) :
          /\ DOMAIN input[functions[j]] = {"raw"}
          /\ DOMAIN recordAt(j) = Keys

====
